---- MODULE Spec2Model ----
(***************************************************************************)
(* Model of web/src/composables/dashboard/usePanelDataLoader.ts: the data  *)
(* loader of one dashboard panel.  A text (query, variable value, error    *)
(* message) is a sequence of tokens; "$" is a token of its own, so that    *)
(* the variable token `$<name>` is the sequence <<"$">> \o name and        *)
(* String.includes / String.replaceAll are computed on sequences.          *)
(***************************************************************************)
EXTENDS Integers, Sequences, FiniteSets, TLC

\* ------------------------------------------------------------------ bounds
\* Number of fetch attempts that get past the gates of loadData in one run.
MaxAttempts == 2
\* Number of events of the panel's surroundings (a changed input, a change of
\* visibility, a direct call of loadData) in one run.
MaxEvents == 2

\* ------------------------------------------------------- text primitives
\* String.prototype.includes
Includes(s, sub) ==
  \E i \in 0..(Len(s) - Len(sub)) : SubSeq(s, i + 1, i + Len(sub)) = sub

\* String.prototype.replaceAll with a string pattern: left to right,
\* non-overlapping, the replacement is not rescanned.
RECURSIVE ReplaceAll(_, _, _)
ReplaceAll(s, sub, val) ==
  IF Len(sub) = 0 \/ Len(s) < Len(sub) THEN s
  ELSE IF SubSeq(s, 1, Len(sub)) = sub
       THEN val \o ReplaceAll(SubSeq(s, Len(sub) + 1, Len(s)), sub, val)
       ELSE <<Head(s)>> \o ReplaceAll(Tail(s), sub, val)

\* `$${name}`
Token(name) == <<"$">> \o name

\* Array.prototype.flat over a list of lists
RECURSIVE Flat(_)
Flat(ss) == IF ss = <<>> THEN <<>> ELSE Head(ss) \o Flat(Tail(ss))

\* Array.prototype.find by name: the index of the first element with that name, 0 if none
FindByName(s, name) ==
  IF \E i \in 1..Len(s) : s[i].name = name
  THEN CHOOSE i \in 1..Len(s) : s[i].name = name /\ \A j \in 1..(i - 1) : s[j].name # name
  ELSE 0

\* A text of n characters
Chars(n) == [i \in 1..n |-> "x"]


\* --------------------------------------------------------------- values
\* JavaScript's undefined, where a record is expected
Undefined == [undefined |-> TRUE]

NameA == <<"a">>
NameF == <<"f">>
NameK == <<"k">>

\* Values a scalar variable takes in the variable store
Values == {<<>>, <<"u">>, <<"v">>}

\* An ad-hoc filter {name, operator, value}
Filter(n, o, v) == [name |-> n, operator |-> o, value |-> v]
F1 == Filter(NameK, <<"=">>, <<"1">>)
F2 == Filter(NameK, <<"=">>, <<"2">>)
FBlank == Filter(NameK, <<"=">>, <<>>)

\* Filter lists an ad-hoc variable takes in the variable store
FilterLists == {<<>>, <<F1>>, <<FBlank, F2>>}

\* A variable of the store: {name, type, value, isLoading}
Variable(n, t, v, l) == [name |-> n, type |-> t, value |-> v, isLoading |-> l]

\* variablesData.value.values at construction
InitStores ==
  {<<Variable(NameA, "custom", a[1], a[2]), Variable(NameF, "ad-hoc-filters", fl, FALSE)>> :
      a \in {<<<<>>, TRUE>>, <<<<"u">>, FALSE>>}, fl \in {<<>>, <<F1>>}}

\* The stores one change of the variable store leads to: the same variables,
\* one of them with another value or loading flag.
NextStores(vd) ==
  {[vd EXCEPT ![i] = [@ EXCEPT !.value = v, !.isLoading = l]] :
      i \in {j \in 1..Len(vd) : vd[j].type # "ad-hoc-filters"}, v \in Values, l \in BOOLEAN}
  \cup {[vd EXCEPT ![i] = [@ EXCEPT !.value = fl]] :
      i \in {j \in 1..Len(vd) : vd[j].type = "ad-hoc-filters"}, fl \in FilterLists}

\* Query texts of a sub-query
QPlain == <<"q">>
QVarA == <<"q", "$", "a">>
QEmpty == <<>>

\* A panel definition: {queryType, queries: [{query}]}
Schema(t, qs) == [queryType |-> t, queries |-> [i \in 1..Len(qs) |-> [query |-> qs[i]]]]

Schemas ==
  { Schema("promql", <<QVarA>>),
    Schema("sql", <<QPlain, QVarA>>),
    Schema("sql", <<QEmpty, QPlain>>),
    Schema("sql", <<QEmpty>>),
    Schema("sql", <<>>) }

\* A bound of the selected time range: missing, an invalid Date, or a Date (epoch ms)
NoDate == [kind |-> "missing", ms |-> 0]
InvalidDate == [kind |-> "invalid", ms |-> 0]
Date(ms) == [kind |-> "date", ms |-> ms]

TimeObjs ==
  { [start_time |-> NoDate, end_time |-> NoDate],
    [start_time |-> Date(0), end_time |-> InvalidDate],
    [start_time |-> Date(0), end_time |-> Date(1500000)] }


\* ------------------------------------------------------ interval buckets
\* The breakpoints of formatInterval, in source order: <<upper bound, value, unit>>
IntervalTable ==
  << <<10, 1, "ms">>, <<15, 10, "ms">>, <<35, 20, "ms">>, <<75, 50, "ms">>,
     <<150, 100, "ms">>, <<350, 200, "ms">>, <<750, 500, "ms">>, <<1500, 1, "s">>,
     <<3500, 2, "s">>, <<7500, 5, "s">>, <<12500, 10, "s">>, <<17500, 15, "s">>,
     <<25000, 20, "s">>, <<45000, 30, "s">>, <<90000, 1, "m">>, <<210000, 2, "m">>,
     <<450000, 5, "m">>, <<750000, 10, "m">>, <<1050000, 15, "m">>, <<1500000, 20, "m">>,
     <<2700000, 30, "m">>, <<5400000, 1, "h">>, <<9000000, 2, "h">>, <<16200000, 3, "h">>,
     <<32400000, 6, "h">>, <<86400000, 12, "h">>, <<172800000, 24, "h">>,
     <<604800000, 24, "h">>, <<1814400000, 1, "w">> >>

\* Math.ceil and Math.floor of the rational num / den (den > 0, num >= 0)
CeilDiv(num, den) == (num + den - 1) \div den

\* formatInterval of the rational num / den (den > 0): the first case whose
\* comparison holds; the last case is strict (interval < 3628800000), the
\* default is 1y.  x <= T is decided on ceil(x), x < 2 * T on floor(x) \div 2.
formatInterval(num, den) ==
  IF \E i \in 1..Len(IntervalTable) : CeilDiv(num, den) <= IntervalTable[i][1]
  THEN LET i == CHOOSE k \in 1..Len(IntervalTable) :
                  /\ CeilDiv(num, den) <= IntervalTable[k][1]
                  /\ \A j \in 1..(k - 1) : ~(CeilDiv(num, den) <= IntervalTable[j][1])
       IN [value |-> IntervalTable[i][2], unit |-> IntervalTable[i][3]]
  ELSE IF (num \div den) \div 2 < 1814400000 THEN [value |-> 30, unit |-> "d"]
  ELSE [value |-> 1, unit |-> "y"]

\* getTimeInSecondsBasedOnUnit: whole seconds and the milliseconds beyond
\* them (the "ms" case divides by 1000)
getTimeInSecondsBasedOnUnit(seconds, unit) ==
  CASE unit = "ms" -> [sec |-> seconds \div 1000, ms |-> seconds % 1000]
    [] unit = "s" -> [sec |-> seconds, ms |-> 0]
    [] unit = "m" -> [sec |-> seconds * 60, ms |-> 0]
    [] unit = "h" -> [sec |-> seconds * 60 * 60, ms |-> 0]
    [] unit = "d" -> [sec |-> seconds * 60 * 60 * 24, ms |-> 0]
    [] unit = "w" -> [sec |-> seconds * 60 * 60 * 24 * 7, ms |-> 0]
    [] unit = "y" -> [sec |-> seconds * 60 * 60 * 24 * 7 * 12, ms |-> 0]
    [] OTHER -> [sec |-> seconds, ms |-> 0]

\* Number.prototype.toString of a number of seconds t.sec + t.ms / 1000
SecondsText(t) ==
  LET frac == t.ms
      digits == IF frac % 100 = 0 THEN <<ToString(frac \div 100)>>
                ELSE IF frac % 10 = 0
                     THEN <<ToString(frac \div 100), ToString((frac \div 10) % 10)>>
                     ELSE <<ToString(frac \div 100), ToString((frac \div 10) % 10),
                            ToString(frac % 10)>>
  IN IF frac = 0 THEN <<ToString(t.sec)>> ELSE <<ToString(t.sec), ".">> \o digits

\* Number.prototype.toString of t * 1000
MillisText(t) ==
  IF t.sec = 0 THEN <<ToString(t.ms)>> ELSE <<ToString(t.sec * 1000 + t.ms)>>

\* formateRateInterval with the minutes taken from the whole duration
\* (`interval / 60` without `% 3600`)
formateRateIntervalTotalMinutes(interval) ==
  LET days == interval.sec \div (3600 * 24)
      hours == (interval.sec % (3600 * 24)) \div 3600
      minutes == interval.sec \div 60
      remainingSeconds == [sec |-> interval.sec % 60, ms |-> interval.ms]
  IN (IF days > 0 THEN <<ToString(days), "d">> ELSE <<>>)
     \o (IF hours > 0 THEN <<ToString(hours), "h">> ELSE <<>>)
     \o (IF minutes > 0 THEN <<ToString(minutes), "m">> ELSE <<>>)
     \o (IF remainingSeconds.sec > 0 \/ remainingSeconds.ms > 0
         THEN SecondsText(remainingSeconds) \o <<"s">> ELSE <<>>)

\* formateRateInterval of interval.sec + interval.ms / 1000 seconds
formateRateInterval(interval) ==
  LET days == interval.sec \div (3600 * 24)
      hours == (interval.sec % (3600 * 24)) \div 3600
      minutes == (interval.sec % 3600) \div 60
      remainingSeconds == [sec |-> interval.sec % 60, ms |-> interval.ms]
  IN (IF days > 0 THEN <<ToString(days), "d">> ELSE <<>>)
     \o (IF hours > 0 THEN <<ToString(hours), "h">> ELSE <<>>)
     \o (IF minutes > 0 THEN <<ToString(minutes), "m">> ELSE <<>>)
     \o (IF remainingSeconds.sec > 0 \/ remainingSeconds.ms > 0
         THEN SecondsText(remainingSeconds) \o <<"s">> ELSE <<>>)

\* Math.max(t + scrape, 4 * scrape)
RateInterval(t, scrapeInterval) ==
  IF t.sec + scrapeInterval >= 4 * scrapeInterval
  THEN [sec |-> t.sec + scrapeInterval, ms |-> t.ms]
  ELSE [sec |-> 4 * scrapeInterval, ms |-> 0]

NameIntervalMs == <<"__interval", "_ms">>
NameInterval == <<"__interval">>
NameRateInterval == <<"__rate_interval">>

\* The fixedVariables list of replaceQueryValue; scrapeInterval in seconds,
\* width the panel's offsetWidth.
FixedVariables(startISOTimestamp, endISOTimestamp, width, scrapeInterval) ==
  LET formattedInterval == formatInterval(endISOTimestamp - startISOTimestamp, width * 1000)
      t == getTimeInSecondsBasedOnUnit(formattedInterval.value, formattedInterval.unit)
  IN << [name |-> NameIntervalMs, value |-> MillisText(t) \o <<"ms">>],
        [name |-> NameInterval,
         value |-> <<ToString(formattedInterval.value), formattedInterval.unit>>],
        [name |-> NameRateInterval,
         value |-> formateRateInterval(RateInterval(t, scrapeInterval))] >>


\* --------------------------------------------------- variable substitution
\* SubstituteEach without the `query.includes(variableName)` test before the push
RECURSIVE SubstituteEachAlwaysPushing(_, _, _)
SubstituteEachAlwaysPushing(variables, type, acc) ==
  IF variables = <<>> THEN acc
  ELSE LET variable == Head(variables)
           variableName == Token(variable.name)
       IN SubstituteEachAlwaysPushing(
            Tail(variables), type,
            [query |-> ReplaceAll(acc.query, variableName, variable.value),
             metadata |-> Append(acc.metadata,
                                 [type |-> type, name |-> variable.name,
                                  value |-> variable.value])])

\* One pass of a forEach of replaceQueryValue over `variables`, from the
\* pair acc = [query, metadata]: a ledger entry when the token occurs, then
\* replaceAll.
RECURSIVE SubstituteEach(_, _, _)
SubstituteEach(variables, type, acc) ==
  IF variables = <<>> THEN acc
  ELSE LET variable == Head(variables)
           variableName == Token(variable.name)
           pushed == IF Includes(acc.query, variableName)
                     THEN Append(acc.metadata,
                                 [type |-> type, name |-> variable.name,
                                  value |-> variable.value])
                     ELSE acc.metadata
       IN SubstituteEach(Tail(variables), type,
                         [query |-> ReplaceAll(acc.query, variableName, variable.value),
                          metadata |-> pushed])

\* replaceQueryValue: fixed variables first, then every entry of
\* currentDependentVariablesData (deps)
replaceQueryValue(query, startISOTimestamp, endISOTimestamp, deps, width, scrapeInterval) ==
  LET fixed == SubstituteEach(
                 FixedVariables(startISOTimestamp, endISOTimestamp, width, scrapeInterval),
                 "fixed", [query |-> query, metadata |-> <<>>])
  IN IF Len(deps) > 0 THEN SubstituteEach(deps, "variable", fixed) ELSE fixed

\* The flattened ad-hoc filters of the store that have operator, name and value
AdHocVariables(vd) ==
  LET adhoc == SelectSeq(vd, LAMBDA it : it.type = "ad-hoc-filters")
      lists == [i \in 1..Len(adhoc) |-> adhoc[i].value]
  IN SelectSeq(Flat(lists),
               LAMBDA it : it.operator # <<>> /\ it.name # <<>> /\ it.value # <<>>)

\* The label matcher a filter is injected as
Matcher(name, value, operator) == <<"{">> \o name \o operator \o value \o <<"}">>

\* The query without the matchers of label `name`
RECURSIVE RemoveMatchers(_, _)
RemoveMatchers(query, name) ==
  LET open == <<"{">> \o name
  IN IF Len(query) < Len(open) THEN query
     ELSE IF SubSeq(query, 1, Len(open)) = open /\ \E i \in 1..Len(query) : query[i] = "}"
          THEN LET close == CHOOSE i \in 1..Len(query) :
                              query[i] = "}" /\ \A j \in 1..(i - 1) : query[j] # "}"
               IN RemoveMatchers(SubSeq(query, close + 1, Len(query)), name)
          ELSE <<Head(query)>> \o RemoveMatchers(Tail(query), name)

\* addLabelToPromQlQuery: a matcher of the label is overridden, not duplicated
addLabelToPromQlQuery(query, name, value, operator) ==
  RemoveMatchers(query, name) \o Matcher(name, value, operator)

\* addLabelsToSQlQuery: one predicate per filter, merged the same way
RECURSIVE addLabelsToSQlQuery(_, _)
addLabelsToSQlQuery(query, filters) ==
  IF filters = <<>> THEN query
  ELSE addLabelsToSQlQuery(
         addLabelToPromQlQuery(query, Head(filters).name, Head(filters).value,
                               Head(filters).operator),
         Tail(filters))

RECURSIVE AddLabelsPromQl(_, _)
AddLabelsPromQl(query, filters) ==
  IF filters = <<>> THEN query
  ELSE AddLabelsPromQl(
         addLabelToPromQlQuery(query, Head(filters).name, Head(filters).value,
                               Head(filters).operator),
         Tail(filters))

\* The "dynamicVariable" ledger entries pushed for the filters
DynamicEntries(filters) ==
  [i \in 1..Len(filters) |->
     [type |-> "dynamicVariable", name |-> filters[i].name, value |-> filters[i].value,
      operator |-> filters[i].operator]]

\* The matchers of the filters appended to the text as they are
RECURSIVE AppendMatchers(_, _)
AppendMatchers(query, filters) ==
  IF filters = <<>> THEN query
  ELSE AppendMatchers(query \o Matcher(Head(filters).name, Head(filters).value,
                                       Head(filters).operator),
                      Tail(filters))

\* applyAdhocVariables building the matchers itself instead of calling the
\* label utilities
applyAdhocVariablesAppending(query, queryType, vd) ==
  LET adHocVariables == AdHocVariables(vd)
  IN IF Len(adHocVariables) = 0 THEN [query |-> query, metadata |-> <<>>]
     ELSE IF queryType \in {"promql", "sql"}
          THEN [query |-> AppendMatchers(query, adHocVariables),
                metadata |-> DynamicEntries(adHocVariables)]
     ELSE [query |-> query, metadata |-> <<>>]

\* applyAdhocVariables
applyAdhocVariables(query, queryType, vd) ==
  LET adHocVariables == AdHocVariables(vd)
  IN IF Len(adHocVariables) = 0 THEN [query |-> query, metadata |-> <<>>]
     ELSE IF queryType = "promql"
          THEN [query |-> AddLabelsPromQl(query, adHocVariables),
                metadata |-> DynamicEntries(adHocVariables)]
     ELSE IF queryType = "sql"
          THEN [query |-> addLabelsToSQlQuery(query, adHocVariables),
                metadata |-> DynamicEntries(adHocVariables)]
     ELSE [query |-> query, metadata |-> <<>>]

\* The metadata record loadData builds for one sub-query
QueryMetadata(it, startISOTimestamp, endISOTimestamp, queryType, deps, vd, width, scrape) ==
  LET r1 == replaceQueryValue(it.query, startISOTimestamp, endISOTimestamp, deps, width, scrape)
      r2 == applyAdhocVariables(r1.query, queryType, vd)
  IN [originalQuery |-> it.query, query |-> r2.query, startTime |-> startISOTimestamp,
      endTime |-> endISOTimestamp, queryType |-> queryType,
      variables |-> r1.metadata \o r2.metadata]

\* ---------------------------------------------------------- dependency gate
\* The non-ad-hoc variables whose token occurs in some sub-query text
DependentVariables(vd, ps) ==
  SelectSeq(vd, LAMBDA it :
    /\ it.type # "ad-hoc-filters"
    /\ \E i \in 1..Len(ps.queries) : Includes(ps.queries[i].query, Token(it.name)))

isQueryDependentOnTheVariables(vd, ps) == Len(DependentVariables(vd, ps)) > 0

\* canRunQueryBasedOnVariables with the filter on isLoading inverted
canRunQueryWithLoadingFilterInverted(vd, ps) ==
  LET dependentVariables == DependentVariables(vd, ps)
      dependentAvailableVariables == SelectSeq(dependentVariables, LAMBDA it : it.isLoading)
  IN IF Len(dependentVariables) > 0
     THEN Len(dependentAvailableVariables) = Len(dependentVariables)
     ELSE TRUE

canRunQueryBasedOnVariables(vd, ps) ==
  LET dependentVariables == DependentVariables(vd, ps)
      dependentAvailableVariables == SelectSeq(dependentVariables, LAMBDA it : ~it.isLoading)
  IN IF Len(dependentVariables) > 0
     THEN Len(dependentAvailableVariables) = Len(dependentVariables)
     ELSE TRUE

\* hasAtLeastOneQuery
hasAtLeastOneQuery(ps) == \E i \in 1..Len(ps.queries) : ps.queries[i].query # <<>>

\* ------------------------------------------------------------------ errors
\* Length above which processApiError cuts the message
TrimLength == 300

\* An error of the execution service: response.data.error (promql),
\* response.data.error_detail / response.data.message (sql), and message;
\* <<>> stands for a missing or empty field.
ApiError(e, d, m, msg) == [error |-> e, error_detail |-> d, message_ |-> m, message |-> msg]

\* One error: metrics_query_range surfaces its short message, search its
\* long error_detail
Errors == { ApiError(<<>>, Chars(TrimLength + 1), <<>>, Chars(2)) }

\* a || b on texts
OrElse(a, b) == IF a # <<>> THEN a ELSE b

\* processApiError: the new value of state.errorDetail
processApiError(error, type, errorDetail) ==
  LET errorDetailValue ==
        IF type = "promql" THEN OrElse(error.error, error.message)
        ELSE OrElse(error.error_detail, OrElse(error.message_, error.message))
      trimmedErrorMessage ==
        IF Len(errorDetailValue) > TrimLength
        THEN SubSeq(errorDetailValue, 1, TrimLength) \o <<" ", ".", ".", ".">>
        ELSE errorDetailValue
  IN IF type \in {"promql", "sql"} THEN trimmedErrorMessage ELSE errorDetail


\* ------------------------------------------------------------------- state
\* chartPanelRef.value?.offsetWidth ?? 1000 and scrape_interval ?? 15
DefaultWidth == 1000
DefaultScrapeInterval == 15

VARIABLES
  panelSchema,                     \* panelSchema.value
  selectedTimeObj,                 \* selectedTimeObj.value
  variablesData,                   \* variablesData.value.values
  state,                           \* the reactive {data, loading, errorDetail, metadata}
  isDirty,
  isVisible,
  currentDependentVariablesData,
  currentAdHocVariablesData,
  attempts,                        \* the loadData calls that dispatched, in start order
  events,                          \* number of events so far
  last                             \* what the last handler did

vars == <<panelSchema, selectedTimeObj, variablesData, state, isDirty, isVisible,
          currentDependentVariablesData, currentAdHocVariablesData, attempts, events, last>>

\* The record of a handler that did nothing yet
Step(op) ==
  [op |-> op,
   calls |-> 0,             \* number of calls of loadData
   dirtyAtCall |-> FALSE,   \* isDirty when it was called
   outcome |-> "none",      \* of the loadData call: gate, throw, notready, dispatched
   attempt |-> 0,           \* the attempt dispatched or settled
   index |-> 0,             \* the sub-query call settled
   completed |-> FALSE,     \* the code after await Promise.all ran
   threw |-> FALSE,         \* loadData's promise rejected
   results |-> <<>>,        \* what Promise.all resolved to
   bound |-> FALSE,         \* shouldITriggerTheQueryForOtherVariables
   adhoc |-> FALSE,         \* shouldITriggerTheQueryForAdHocVariables
   before |-> [bound |-> <<>>, adhoc |-> <<>>]]   \* the baselines the two decisions read

Init ==
  /\ panelSchema \in Schemas
  /\ selectedTimeObj \in TimeObjs
  /\ variablesData \in InitStores
  /\ state = [data |-> <<>>, loading |-> FALSE, errorDetail |-> <<>>,
              metadata |-> [defined |-> FALSE, queries |-> <<>>]]
  /\ isDirty = TRUE
  /\ isVisible = FALSE
  /\ currentDependentVariablesData = variablesData
  /\ currentAdHocVariablesData = variablesData
  /\ attempts = <<>>
  /\ events = 0
  /\ last = Step("init")

\* ---------------------------------------------------------------- loadData
\* TimeReady without the "Invalid Date" test of end_time
TimeReadyWithoutEndCheck(timestamps) ==
  timestamps.start_time.kind = "date" /\ timestamps.end_time.kind # "missing"

\* timestamps?.start_time && timestamps?.end_time && neither is "Invalid Date"
TimeReady(timestamps) ==
  timestamps.start_time.kind = "date" /\ timestamps.end_time.kind = "date"

\* The promises loadData maps the sub-queries to: every call is made while
\* the list is built, before Promise.all is awaited.
Dispatch(ps, timestamps, vd, deps) ==
  [i \in 1..Len(ps.queries) |->
     [status |-> "pending",
      type |-> IF ps.queryType = "promql" THEN "promql" ELSE "sql",
      value |-> Undefined,
      metadata |-> QueryMetadata(ps.queries[i], timestamps.start_time.ms,
                                 timestamps.end_time.ms, ps.queryType, deps, vd,
                                 DefaultWidth, DefaultScrapeInterval)]]

\* Where a call of loadData ends, synchronously
LoadOutcome(ps, timestamps, vd) ==
  IF isQueryDependentOnTheVariables(vd, ps) /\ ~canRunQueryBasedOnVariables(vd, ps)
  THEN "gate"
  ELSE IF Len(ps.queries) = 0 THEN "throw"
  ELSE IF ~TimeReady(timestamps) THEN "notready"
  ELSE "dispatched"

\* loadData, called by handler step `step` with the inputs as the handler
\* left them; dirty is isDirty at the call.
loadData(step, dirty, ps, timestamps, vd, deps) ==
  LET outcome == LoadOutcome(ps, timestamps, vd)
  IN /\ isDirty' = FALSE
     /\ IF outcome = "dispatched"
        THEN /\ Len(attempts) < MaxAttempts
             /\ state' = [state EXCEPT !.loading = TRUE]
             /\ attempts' = Append(attempts,
                                   [done |-> FALSE, threw |-> FALSE,
                                    calls |-> Dispatch(ps, timestamps, vd, deps)])
        ELSE UNCHANGED <<state, attempts>>
     /\ last' = [step EXCEPT !.calls = @ + 1, !.dirtyAtCall = dirty, !.outcome = outcome,
                             !.threw = (outcome = "throw"),
                             !.attempt = IF outcome = "dispatched"
                                         THEN Len(attempts) + 1 ELSE 0]

\* A handler that ends without calling loadData
NoLoad(step, dirty) ==
  /\ isDirty' = dirty
  /\ last' = step
  /\ UNCHANGED <<state, attempts>>

\* ---------------------------------------------------------------- watchers
\* One more event of the surroundings
Event == events < MaxEvents /\ events' = events + 1

\* WatchSchemaAndTime without `isDirty.value = true`
WatchSchemaAndTimeKeepingDirty(op, ps, timestamps) ==
  IF isVisible /\ isDirty /\ Len(ps.queries) > 0 /\ ps.queries[1].query # <<>>
  THEN loadData(Step(op), isDirty, ps, timestamps, variablesData,
                currentDependentVariablesData)
  ELSE NoLoad(Step(op), isDirty)

\* watch([panelSchema, selectedTimeObj])
WatchSchemaAndTime(op, ps, timestamps) ==
  LET step == Step(op)
  IN IF isVisible /\ Len(ps.queries) > 0 /\ ps.queries[1].query # <<>>
     THEN loadData(step, TRUE, ps, timestamps, variablesData, currentDependentVariablesData)
     ELSE NoLoad(step, TRUE)

PanelSchemaChange(ps) ==
  /\ Event
  /\ panelSchema' = ps
  /\ WatchSchemaAndTime("schema", ps, selectedTimeObj)
  /\ UNCHANGED <<selectedTimeObj, variablesData, isVisible, currentDependentVariablesData,
                 currentAdHocVariablesData>>

TimeRangeChange(timestamps) ==
  /\ Event
  /\ selectedTimeObj' = timestamps
  /\ WatchSchemaAndTime("time", panelSchema, timestamps)
  /\ UNCHANGED <<panelSchema, variablesData, isVisible, currentDependentVariablesData,
                 currentAdHocVariablesData>>

\* WatchVisible without the test of isDirty
WatchVisibleIgnoringDirty(visible) ==
  IF visible /\ Len(panelSchema.queries) > 0 /\ hasAtLeastOneQuery(panelSchema)
  THEN loadData(Step("visible"), isDirty, panelSchema, selectedTimeObj, variablesData,
                currentDependentVariablesData)
  ELSE NoLoad(Step("visible"), isDirty)

\* watch(isVisible)
WatchVisible(visible) ==
  IF visible /\ isDirty /\ Len(panelSchema.queries) > 0 /\ hasAtLeastOneQuery(panelSchema)
  THEN loadData(Step("visible"), isDirty, panelSchema, selectedTimeObj, variablesData,
                currentDependentVariablesData)
  ELSE NoLoad(Step("visible"), isDirty)

\* handleIntersection with a changed isIntersecting
HandleIntersection(isIntersecting) ==
  /\ Event
  /\ isIntersecting # isVisible
  /\ isVisible' = isIntersecting
  /\ WatchVisible(isIntersecting)
  /\ UNCHANGED <<panelSchema, selectedTimeObj, variablesData, currentDependentVariablesData,
                 currentAdHocVariablesData>>

\* SameAsBaseline without `oldValue?.value != ""`
SameAsBaselineWithoutEmptyTest(it, baseline) ==
  LET i == FindByName(baseline, it.name)
  IN i # 0 /\ it.value = baseline[i].value

\* it.value == oldValue?.value && oldValue?.value != ""
SameAsBaseline(it, baseline) ==
  LET i == FindByName(baseline, it.name)
  IN i # 0 /\ it.value = baseline[i].value /\ baseline[i].value # <<>>

\* BoundDecision that keeps the whole store as the new baseline
BoundDecisionKeepingAllVariables(vd, ps, baseline) ==
  LET newDependentVariablesData == DependentVariables(vd, ps)
      isAllValuesSame == \A i \in 1..Len(newDependentVariablesData) :
                            SameAsBaseline(newDependentVariablesData[i], baseline)
  IN IF Len(newDependentVariablesData) = 0 THEN [trigger |-> FALSE, baseline |-> baseline]
     ELSE IF ~isAllValuesSame
          THEN [trigger |-> TRUE, baseline |-> vd]
          ELSE [trigger |-> FALSE, baseline |-> baseline]

\* shouldITriggerTheQueryForOtherVariables: [trigger, the new baseline]
BoundDecision(vd, ps, baseline) ==
  LET newDependentVariablesData == DependentVariables(vd, ps)
      isAllValuesSame == \A i \in 1..Len(newDependentVariablesData) :
                            SameAsBaseline(newDependentVariablesData[i], baseline)
  IN IF Len(newDependentVariablesData) = 0 THEN [trigger |-> FALSE, baseline |-> baseline]
     ELSE IF ~isAllValuesSame
          THEN [trigger |-> TRUE, baseline |-> newDependentVariablesData]
          ELSE [trigger |-> FALSE, baseline |-> baseline]

\* shouldITriggerTheQueryForAdHocVariables: [trigger, the new baseline]
AdHocDecision(vd, baseline) ==
  LET adHocVariables == AdHocVariables(vd)
      isAllValuesSame == \A i \in 1..Len(adHocVariables) :
                            SameAsBaseline(adHocVariables[i], baseline)
  IN IF Len(adHocVariables) # Len(baseline)
     THEN [trigger |-> TRUE, baseline |-> adHocVariables]
     ELSE IF Len(adHocVariables) = 0 THEN [trigger |-> FALSE, baseline |-> baseline]
     ELSE IF ~isAllValuesSame THEN [trigger |-> TRUE, baseline |-> adHocVariables]
     ELSE [trigger |-> FALSE, baseline |-> baseline]

\* WatchVariables without `if (isVisible.value)` around loadData()
WatchVariablesIgnoringVisibility(vd) ==
  IF Len(panelSchema.queries) = 0
  THEN /\ NoLoad(Step("variables"), isDirty)
       /\ UNCHANGED <<currentDependentVariablesData, currentAdHocVariablesData>>
  ELSE LET other == BoundDecision(vd, panelSchema, currentDependentVariablesData)
           adhoc == AdHocDecision(vd, currentAdHocVariablesData)
           step == [Step("variables") EXCEPT
                      !.bound = other.trigger,
                      !.adhoc = adhoc.trigger,
                      !.before = [bound |-> currentDependentVariablesData,
                                  adhoc |-> currentAdHocVariablesData]]
       IN /\ currentDependentVariablesData' = other.baseline
          /\ currentAdHocVariablesData' = adhoc.baseline
          /\ IF other.trigger \/ adhoc.trigger
             THEN loadData(step, TRUE, panelSchema, selectedTimeObj, vd, other.baseline)
             ELSE NoLoad(step, isDirty)

\* watch(variablesData.value?.values, {deep: true})
WatchVariables(vd) ==
  IF Len(panelSchema.queries) = 0
  THEN /\ NoLoad(Step("variables"), isDirty)
       /\ UNCHANGED <<currentDependentVariablesData, currentAdHocVariablesData>>
  ELSE LET other == BoundDecision(vd, panelSchema, currentDependentVariablesData)
           adhoc == AdHocDecision(vd, currentAdHocVariablesData)
           step == [Step("variables") EXCEPT
                      !.bound = other.trigger,
                      !.adhoc = adhoc.trigger,
                      !.before = [bound |-> currentDependentVariablesData,
                                  adhoc |-> currentAdHocVariablesData]]
       IN /\ currentDependentVariablesData' = other.baseline
          /\ currentAdHocVariablesData' = adhoc.baseline
          /\ IF other.trigger \/ adhoc.trigger
             THEN IF isVisible
                  THEN loadData(step, TRUE, panelSchema,
                                selectedTimeObj, vd, other.baseline)
                  ELSE NoLoad(step, TRUE)
             ELSE NoLoad(step, isDirty)

VariablesChange(vd) ==
  /\ Event
  /\ variablesData' = vd
  /\ WatchVariables(vd)
  /\ UNCHANGED <<panelSchema, selectedTimeObj, isVisible>>

\* loadData called by the component that owns the loader
LoadDataDirect ==
  /\ Event
  /\ loadData(Step("direct"), isDirty, panelSchema, selectedTimeObj, variablesData,
              currentDependentVariablesData)
  /\ UNCHANGED <<panelSchema, selectedTimeObj, variablesData, isVisible,
                 currentDependentVariablesData, currentAdHocVariablesData>>


\* ------------------------------------------------------- service responses
\* What the execution service answers call i of attempt k with (res.data.data,
\* res.data.hits)
ServiceResult(k, i) == [attempt |-> k, index |-> i]

\* The code after `await Promise.all(...)`, over the values the promises
\* resolved to: loading = false, then the two maps; `it.result` of an
\* undefined entry throws before state.data is assigned.
Complete(st, queryResults) ==
  IF \E i \in 1..Len(queryResults) : queryResults[i] = Undefined
  THEN [st EXCEPT !.loading = FALSE]
  ELSE [st EXCEPT !.loading = FALSE,
                  !.data = [i \in 1..Len(queryResults) |-> queryResults[i].result],
                  !.metadata = [defined |-> TRUE,
                                queries |-> [i \in 1..Len(queryResults) |->
                                               queryResults[i].metadata]]]

\* AllSettled as Promise.race would have it: one settled promise is enough
AnySettled(calls) == \E i \in 1..Len(calls) : calls[i].status # "pending"

\* Promise.all resolves once every promise of the list has
AllSettled(calls) == \A i \in 1..Len(calls) : calls[i].status # "pending"

\* Call i of attempt k settles: its handler has set errorDetail and returned
\* `value`; when it was the last one pending, loadData resumes in the same
\* run of the microtask queue.
Settle(op, k, i, status, value, errorDetail) ==
  LET calls == [attempts[k].calls EXCEPT ![i] = [@ EXCEPT !.status = status,
                                                          !.value = value]]
      queryResults == [j \in 1..Len(calls) |-> calls[j].value]
      st == [state EXCEPT !.errorDetail = errorDetail]
      threw == \E j \in 1..Len(queryResults) : queryResults[j] = Undefined
      step == [Step(op) EXCEPT !.attempt = k, !.index = i]
  IN IF AllSettled(calls)
     THEN /\ state' = Complete(st, queryResults)
          /\ attempts' = [attempts EXCEPT ![k] = [done |-> TRUE, threw |-> threw,
                                                  calls |-> <<>>]]
          /\ last' = [step EXCEPT !.completed = TRUE, !.threw = threw,
                                  !.results = queryResults]
     ELSE /\ state' = st
          /\ attempts' = [attempts EXCEPT ![k] = [@ EXCEPT !.calls = calls]]
          /\ last' = step

\* .then((res) => { state.errorDetail = ""; return {result, metadata} })
Resolve(k, i) ==
  /\ k \in 1..Len(attempts)
  /\ i \in 1..Len(attempts[k].calls)
  /\ attempts[k].calls[i].status = "pending"
  /\ Settle("resolve", k, i, "ok",
            [result |-> ServiceResult(k, i), metadata |-> attempts[k].calls[i].metadata],
            <<>>)
  /\ UNCHANGED <<panelSchema, selectedTimeObj, variablesData, isDirty, isVisible,
                 currentDependentVariablesData, currentAdHocVariablesData, events>>

\* .catch((error) => { processApiError(error, type) })
Reject(k, i, error) ==
  /\ k \in 1..Len(attempts)
  /\ i \in 1..Len(attempts[k].calls)
  /\ attempts[k].calls[i].status = "pending"
  /\ Settle("reject", k, i, "failed", Undefined,
            processApiError(error, attempts[k].calls[i].type, state.errorDetail))
  /\ UNCHANGED <<panelSchema, selectedTimeObj, variablesData, isDirty, isVisible,
                 currentDependentVariablesData, currentAdHocVariablesData, events>>

\* Number of sub-queries of the largest panel definition
MaxQueries == CHOOSE n \in 0..8 : /\ \A ps \in Schemas : Len(ps.queries) <= n
                                  /\ \E ps \in Schemas : Len(ps.queries) = n

Next ==
  \/ \E ps \in Schemas : PanelSchemaChange(ps)
  \/ \E timestamps \in TimeObjs : TimeRangeChange(timestamps)
  \/ \E isIntersecting \in BOOLEAN : HandleIntersection(isIntersecting)
  \/ \E vd \in NextStores(variablesData) : VariablesChange(vd)
  \/ LoadDataDirect
  \/ \E k \in 1..MaxAttempts, i \in 1..MaxQueries : Resolve(k, i)
  \/ \E k \in 1..MaxAttempts, i \in 1..MaxQueries, error \in Errors : Reject(k, i, error)

Spec == Init /\ [][Next]_vars

\* ------------------------------------------- a panel over two bound variables
\* Number of events in one run of the panel over two bound variables
MaxStoreEvents == 3

NameB == <<"b">>
QVarB == <<"q", "$", "b">>

\* variablesData.value.values at construction: two scalar variables and one
\* ad-hoc variable
StoreInits ==
  {<<Variable(NameA, "custom", va, FALSE), Variable(NameB, "custom", <<"u">>, FALSE),
     Variable(NameF, "ad-hoc-filters", fl, FALSE)>> :
      va \in {<<>>, <<"u">>}, fl \in {<<>>, <<F1>>}}

\* Panel definitions that reference none, one or both of the scalar variables
StoreSchemas ==
  { Schema("sql", <<QPlain>>),
    Schema("sql", <<QVarA>>),
    Schema("sql", <<QVarA, QVarB>>),
    Schema("sql", <<>>) }

StoreInit ==
  /\ panelSchema \in StoreSchemas
  /\ selectedTimeObj = [start_time |-> Date(0), end_time |-> Date(1500000)]
  /\ variablesData \in StoreInits
  /\ state = [data |-> <<>>, loading |-> FALSE, errorDetail |-> <<>>,
              metadata |-> [defined |-> FALSE, queries |-> <<>>]]
  /\ isDirty = TRUE
  /\ isVisible = FALSE
  /\ currentDependentVariablesData = variablesData
  /\ currentAdHocVariablesData = variablesData
  /\ attempts = <<>>
  /\ events = 0
  /\ last = Step("init")

StoreEvent == events < MaxStoreEvents /\ events' = events + 1

StoreSchemaChange(ps) ==
  /\ StoreEvent
  /\ panelSchema' = ps
  /\ WatchSchemaAndTime("schema", ps, selectedTimeObj)
  /\ UNCHANGED <<selectedTimeObj, variablesData, isVisible, currentDependentVariablesData,
                 currentAdHocVariablesData>>

StoreIntersection(isIntersecting) ==
  /\ StoreEvent
  /\ isIntersecting # isVisible
  /\ isVisible' = isIntersecting
  /\ WatchVisible(isIntersecting)
  /\ UNCHANGED <<panelSchema, selectedTimeObj, variablesData, currentDependentVariablesData,
                 currentAdHocVariablesData>>

StoreVariablesChange(vd) ==
  /\ StoreEvent
  /\ variablesData' = vd
  /\ WatchVariables(vd)
  /\ UNCHANGED <<panelSchema, selectedTimeObj, isVisible>>

\* The events of the panel; the calls it dispatches stay pending (the
\* answers of the service are the subject of Spec)
StoreNext ==
  \/ \E ps \in StoreSchemas : StoreSchemaChange(ps)
  \/ \E isIntersecting \in BOOLEAN : StoreIntersection(isIntersecting)
  \/ \E vd \in NextStores(variablesData) : StoreVariablesChange(vd)

SpecStore == StoreInit /\ [][StoreNext]_vars


\* ------------------------------------------------------------ properties
\* The steps that are triggers of the fetch scheduler
TriggerOps == {"schema", "time", "visible", "variables"}

\* Some non-ad-hoc variable whose token occurs in a sub-query text is loading
ReferencedVariableLoading(vd, ps) ==
  \E i \in 1..Len(vd) :
    /\ vd[i].type # "ad-hoc-filters"
    /\ vd[i].isLoading
    /\ \E j \in 1..Len(ps.queries) :
         \E n \in 1..Len(ps.queries[j].query) :
           /\ n + Len(vd[i].name) <= Len(ps.queries[j].query)
           /\ ps.queries[j].query[n] = "$"
           /\ \A c \in 1..Len(vd[i].name) : ps.queries[j].query[n + c] = vd[i].name[c]

\* C1: a call of loadData made while a non-ad-hoc variable referenced by a
\* sub-query is loading dispatches no service call and leaves the load state
\* (so loading) as it was, whichever handler made the call.
C1_DependencyGate ==
  [][(last'.calls > 0 /\ ReferencedVariableLoading(variablesData', panelSchema'))
       => (attempts' = attempts /\ state' = state)]_vars

\* C1 witness: the visibility watcher called loadData, which returned at the gate
C1_Witness ==
  /\ last.op = "visible" /\ last.calls = 1 /\ last.outcome = "gate"
  /\ ReferencedVariableLoading(variablesData, panelSchema)
  /\ TimeReady(selectedTimeObj)

\* The values Promise.all resolved to hold exactly one undefined entry
OneFailed(results) ==
  Cardinality({i \in 1..Len(results) : results[i] = Undefined}) = 1

\* C2: when an attempt over N >= 2 sub-queries completes with one call
\* rejected and the others resolved, state.data has length N, with every
\* successful result at its index and undefined at the failed index, and
\* metadata.queries holds the N per-sub-query records.
C2_PartialFailure ==
  (last.completed /\ Len(last.results) >= 2 /\ OneFailed(last.results))
    => /\ Len(state.data) = Len(last.results)
       /\ \A i \in 1..Len(last.results) :
            state.data[i] = IF last.results[i] = Undefined THEN Undefined
                            ELSE ServiceResult(last.attempt, i)
       /\ state.metadata.defined
       /\ Len(state.metadata.queries) = Len(last.results)

\* C3: when an attempt completes and one of its calls was rejected (every
\* error of the service carries a non-empty message), errorDetail is not
\* empty, in whatever order the calls settled.
C3_ErrorDetailNonEmpty ==
  (last.completed /\ \E i \in 1..Len(last.results) : last.results[i] = Undefined)
    => state.errorDetail # <<>>

\* C4: a settling service call never makes loadData's promise reject, and an
\* attempt whose calls have all settled, rejected ones included, has set
\* loading = false and written data and metadata for all of its sub-queries.
C4_NeverThrows ==
  last.op \in {"resolve", "reject"}
    => /\ ~last.threw
       /\ last.completed
            => /\ ~state.loading
               /\ Len(state.data) = Len(last.results)
               /\ state.metadata.defined
               /\ Len(state.metadata.queries) = Len(last.results)

\* C5: a trigger calls loadData only when the panel is visible, dirty and has
\* a sub-query with non-empty text.
C5_TriggerPreconditions ==
  (last.calls > 0 /\ last.op \in TriggerOps)
    => /\ isVisible
       /\ last.dirtyAtCall
       /\ \E i \in 1..Len(panelSchema.queries) : Len(panelSchema.queries[i].query) > 0

\* C6: with a non-empty sub-query and a valid time range, a visibility change
\* to true while dirty calls loadData exactly once; a change to true while
\* not dirty, and a change to false, call it never.
C6_VisibilityGating ==
  [][last'.op = "visible"
       => /\ (/\ isVisible' /\ isDirty /\ TimeReady(selectedTimeObj)
              /\ \E i \in 1..Len(panelSchema.queries) :
                   Len(panelSchema.queries[i].query) > 0)
               => last'.calls = 1
          /\ (isVisible' /\ ~isDirty) => last'.calls = 0
          /\ ~isVisible' => last'.calls = 0]_vars

\* C6 witness: the panel became visible while dirty and the call dispatched
C6_Witness ==
  last.op = "visible" /\ isVisible /\ last.calls = 1 /\ last.outcome = "dispatched"

\* C7: isDirty falls only in a step that calls loadData; a settling service
\* call never changes it; after a panel-definition or time-range change, and
\* after a variable-store change the detector signals, it is true unless
\* loadData was called in that same step.
C7_DirtyFlag ==
  [][/\ (isDirty /\ ~isDirty') => last'.calls > 0
     /\ last'.op \in {"resolve", "reject"} => isDirty' = isDirty
     /\ last'.op \in {"schema", "time"} => (isDirty' \/ last'.calls > 0)
     /\ (last'.op = "variables" /\ (last'.bound \/ last'.adhoc))
          => (isDirty' \/ last'.calls > 0)]_vars

\* C7 witness: an input changed while an attempt was in flight, and the attempt
\* then completed with isDirty still true
C7_Witness ==
  /\ last.op \in {"resolve", "reject"} /\ last.completed
  /\ isDirty

\* C8: loadData called while the start or end time is missing or invalid
\* dispatches nothing, leaves the load state as it was and leaves isDirty
\* false; and loadData is called only by a change of the panel definition,
\* time range or visibility, a detected variable change or its owner, never
\* by a settling call.
C8_InputNotReady ==
  [][/\ (last'.calls > 0 /\ ~(selectedTimeObj'.start_time.kind = "date"
                               /\ selectedTimeObj'.end_time.kind = "date"))
          => (attempts' = attempts /\ state' = state /\ ~isDirty')
     /\ last'.calls > 0
          => \/ last'.op \in {"schema", "time", "visible", "direct"}
             \/ (last'.op = "variables" /\ (last'.bound \/ last'.adhoc))]_vars

\* C8 witness: loadData passed the dependency gate and returned at the time check
C8_Witness ==
  /\ last.calls = 1 /\ last.outcome = "notready" /\ ~isDirty
  /\ selectedTimeObj.end_time.kind = "invalid"

\* C9: a dispatching call of loadData leaves one pending call per sub-query,
\* in order; the code after Promise.all runs only when the settling call was
\* the attempt's last pending one; and when all calls succeeded data[i] and
\* metadata.queries[i] are those of sub-query i.
C9_FanOutFanIn ==
  [][/\ last'.outcome = "dispatched"
          => /\ Len(attempts') = Len(attempts) + 1
             /\ Len(attempts'[last'.attempt].calls) = Len(panelSchema'.queries)
             /\ \A i \in 1..Len(panelSchema'.queries) :
                  /\ attempts'[last'.attempt].calls[i].status = "pending"
                  /\ attempts'[last'.attempt].calls[i].metadata.originalQuery
                       = panelSchema'.queries[i].query
     /\ (state'.data # state.data \/ state'.metadata # state.metadata
           \/ (state.loading /\ ~state'.loading))
          => /\ last'.completed
             /\ \A j \in 1..Len(attempts[last'.attempt].calls) :
                  j # last'.index => attempts[last'.attempt].calls[j].status # "pending"
     /\ (last'.completed /\ ~last'.threw)
          => /\ Len(state'.data) = Len(attempts[last'.attempt].calls)
             /\ Len(state'.metadata.queries) = Len(attempts[last'.attempt].calls)
             /\ \A i \in 1..Len(attempts[last'.attempt].calls) :
                  /\ state'.data[i] = ServiceResult(last'.attempt, i)
                  /\ state'.metadata.queries[i]
                       = attempts[last'.attempt].calls[i].metadata]_vars

\* C9 witness: a two-query attempt completed with both calls successful, the
\* second sub-query's call having settled first
C9_Witness ==
  /\ last.completed /\ ~last.threw /\ Len(last.results) = 2 /\ last.index = 1
  /\ state.data = <<ServiceResult(last.attempt, 1), ServiceResult(last.attempt, 2)>>

\* C10: when two attempts overlapped and both have completed, the published
\* data are the results of the attempt that completed last.
C10_LastCompletedWins ==
  (/\ last.completed /\ Len(attempts) = 2
   /\ \A k \in 1..Len(attempts) : attempts[k].done)
    => /\ Len(state.data) = Len(last.results)
       /\ \A i \in 1..Len(last.results) :
            state.data[i] = IF last.results[i] = Undefined THEN Undefined
                            ELSE ServiceResult(last.attempt, i)

\* ------------------------------------------------- variable-store handler
\* The variable-store handler has just run its two decisions
Decided == last.op = "variables" /\ Len(panelSchema.queries) > 0

\* Variable `it` of the store had the empty string as its value in the
\* baseline the bound decision read
EmptyInBaseline(it) ==
  \E j \in 1..Len(last.before.bound) :
    /\ last.before.bound[j].name = it.name
    /\ j = FindByName(last.before.bound, it.name)
    /\ last.before.bound[j].value = <<>>

\* Variable i of the store is a bound variable whose token occurs in a sub-query text
Referenced(i) ==
  /\ variablesData[i].type # "ad-hoc-filters"
  /\ \E j \in 1..Len(panelSchema.queries) :
       Includes(panelSchema.queries[j].query, Token(variablesData[i].name))

\* C11 as claimed: the bound decision reports no change when a referenced
\* variable whose baseline value was the empty string has a new value that
\* differs from it.
C11_EmptyBaselineNoChange ==
  (Decided /\ \E i \in 1..Len(variablesData) :
                 /\ Referenced(i) /\ EmptyInBaseline(variablesData[i])
                 /\ variablesData[i].value # <<>>)
    => ~last.bound

\* C11 as amended: the bound decision reports a change when a referenced
\* variable had the empty string as its baseline value, whether or not its
\* new value differs from it.
C11_EmptyBaselineChange ==
  (Decided /\ \E i \in 1..Len(variablesData) :
                 Referenced(i) /\ EmptyInBaseline(variablesData[i]))
    => last.bound

\* C11 witness: a referenced variable went from the empty string to a value
\* and the bound decision was true
C11_Witness ==
  /\ Decided /\ last.bound
  /\ \E i \in 1..Len(variablesData) :
       /\ Referenced(i) /\ EmptyInBaseline(variablesData[i])
       /\ variablesData[i].value # <<>>

\* ------------------------------------------------ the functions on their own
\* The loader's state but `last`: untouched while a function is applied on
\* its own
loaderVars == <<panelSchema, selectedTimeObj, variablesData, state, isDirty, isVisible,
                currentDependentVariablesData, currentAdHocVariablesData, attempts, events>>

\* The loader as constructed for a panel without sub-queries, time range or
\* variables
NoPanel ==
  /\ panelSchema = Schema("sql", <<>>)
  /\ selectedTimeObj = [start_time |-> NoDate, end_time |-> NoDate]
  /\ variablesData = <<>>
  /\ state = [data |-> <<>>, loading |-> FALSE, errorDetail |-> <<>>,
              metadata |-> [defined |-> FALSE, queries |-> <<>>]]
  /\ isDirty = TRUE
  /\ isVisible = FALSE
  /\ currentDependentVariablesData = <<>>
  /\ currentAdHocVariablesData = <<>>
  /\ attempts = <<>>
  /\ events = 0

\* The arguments a function is about to be applied to
Input(args) == [op |-> "input", args |-> args]

\* ------------------------------------------- replaceQueryValue on its own
\* Number of pieces (a word or a variable token) of a query text
MaxPieces == 3

\* The pieces query texts are made of: a word and the tokens of the fixed
\* and of two bound variables
Pieces ==
  { <<"q">>, Token(NameA), Token(NameB), Token(NameIntervalMs), Token(NameInterval),
    Token(NameRateInterval) }

\* The query texts of at most n pieces
Queries(n) == {Flat(s) : s \in UNION {[1..k -> Pieces] : k \in 0..n}}

\* currentDependentVariablesData: name and value of each entry
DepLists ==
  { <<>>,
    <<[name |-> NameA, value |-> <<"u">>]>>,
    <<[name |-> NameA, value |-> <<>>], [name |-> NameB, value |-> <<"v", "w">>]>>,
    <<[name |-> NameB, value |-> <<"u">>], [name |-> NameA, value |-> <<"u">>]>> }

\* endISOTimestamp - startISOTimestamp of the applications below
RangeMillis == 1500000

SubstituteInit ==
  /\ NoPanel
  /\ last \in {Input([query |-> q, deps |-> d]) : q \in Queries(MaxPieces), d \in DepLists}

ApplyReplaceQueryValue ==
  /\ last.op = "input"
  /\ last' = [op |-> "replaceQueryValue", args |-> last.args,
              value |-> replaceQueryValue(last.args.query, 0, RangeMillis, last.args.deps,
                                          DefaultWidth, DefaultScrapeInterval)]
  /\ UNCHANGED loaderVars

SpecSubstitute == SubstituteInit /\ [][ApplyReplaceQueryValue]_vars

\* Number of occurrences of sub in s
Count(s, sub) ==
  Cardinality({i \in 0..(Len(s) - Len(sub)) : SubSeq(s, i + 1, i + Len(sub)) = sub})

\* Number of occurrences of the token of `name` in `query` when the variable
\* is processed: those of `$__interval` that begin a `$__interval_ms` are
\* gone by then.
Occurrences(query, name) ==
  IF name = NameInterval
  THEN Count(query, Token(NameInterval)) - Count(query, Token(NameIntervalMs))
  ELSE Count(query, Token(name))

\* The fixed variables, then the bound ones, of an application of replaceQueryValue
Processed(args) ==
  LET fixed == FixedVariables(0, RangeMillis, DefaultWidth, DefaultScrapeInterval)
  IN [i \in 1..Len(fixed) |-> [type |-> "fixed", name |-> fixed[i].name,
                               value |-> fixed[i].value]]
     \o [i \in 1..Len(args.deps) |-> [type |-> "variable", name |-> args.deps[i].name,
                                      value |-> args.deps[i].value]]

RECURSIVE SumOver(_, _)
SumOver(f, S) == IF S = {} THEN 0
                 ELSE LET x == CHOOSE y \in S : TRUE IN f[x] + SumOver(f, S \ {x})

\* C12: replaceQueryValue, for every fixed or bound variable: without an
\* occurrence of its token there is no ledger entry for it (and with no
\* occurrence of any token the query text is unchanged); with n >= 1
\* occurrences there is exactly one entry {type, name, value}, no token is
\* left and the text has grown by n times the difference between value and
\* token; the entries are in processing order, fixed before bound.
C12_TokenSubstitution ==
  last.op = "replaceQueryValue" =>
    LET vs == Processed(last.args)
        q == last.args.query
        r == last.value
        hit == SelectSeq(vs, LAMBDA v : Occurrences(q, v.name) > 0)
    IN /\ r.metadata = hit
       /\ \A i \in 1..Len(vs) : ~Includes(r.query, Token(vs[i].name))
       /\ Len(hit) = 0 => r.query = q
       /\ Len(r.query) = Len(q) + SumOver([i \in 1..Len(vs) |->
                                             Occurrences(q, vs[i].name)
                                               * (Len(vs[i].value) - Len(Token(vs[i].name)))],
                                          1..Len(vs))
       /\ \A i \in 1..Len(vs) :
            (Occurrences(q, vs[i].name) > 0 /\ vs[i].value # <<>>)
              => Count(r.query, vs[i].value) >= Occurrences(q, vs[i].name)

\* C12 witness: a token occurred twice and another variable's token did not occur
C12_Witness ==
  /\ last.op = "replaceQueryValue"
  /\ Count(last.args.query, Token(NameA)) = 2
  /\ Len(last.args.deps) = 2
  /\ Count(last.args.query, Token(NameB)) = 0
  /\ Count(last.args.query, Token(NameInterval)) = 1
  /\ Len(last.value.metadata) = 2

\* ------------------------------------------ the substitution pipeline on its own
\* Number of pieces of the query texts given to the pipeline
MaxPipelinePieces == 2

NameJ == <<"j">>
FJ == Filter(NameJ, <<"!=">>, <<"3">>)

\* Query texts: words and tokens, and texts that carry a matcher already
PipelineQueries ==
  Queries(MaxPipelinePieces)
    \cup { QPlain \o Matcher(NameK, <<"0">>, <<"=">>),
           QPlain \o Matcher(NameJ, <<"3">>, <<"!=">>) \o Token(NameA) }

\* Variable stores: one scalar variable and one ad-hoc variable
PipelineStores ==
  {<<Variable(NameA, "custom", va, FALSE), Variable(NameF, "ad-hoc-filters", fl, FALSE)>> :
      va \in {<<>>, <<"u">>},
      fl \in {<<>>, <<F1>>, <<F1, F2>>, <<FBlank, F2>>, <<FJ, F1>>}}

\* replaceQueryValue, then applyAdhocVariables, as loadData composes them
\* over a store that is also the baseline
Pipeline(query, queryType, vd) ==
  QueryMetadata([query |-> query], 0, RangeMillis, queryType, vd, vd,
                DefaultWidth, DefaultScrapeInterval).query

PipelineInit ==
  /\ NoPanel
  /\ last \in {Input([query |-> q, queryType |-> t, vd |-> vd]) :
                 q \in PipelineQueries, t \in {"promql", "sql"}, vd \in PipelineStores}

\* The pipeline applied to the query, and again to its own output
ApplyPipelineTwice ==
  /\ last.op = "input"
  /\ LET once == Pipeline(last.args.query, last.args.queryType, last.args.vd)
     IN last' = [op |-> "pipeline", args |-> last.args,
                 value |-> [once |-> once,
                            twice |-> Pipeline(once, last.args.queryType, last.args.vd)]]
  /\ UNCHANGED loaderVars

SpecPipeline == PipelineInit /\ [][ApplyPipelineTwice]_vars

\* No `$<name>` token is left in the text
NoToken(text) == \A i \in 1..Len(text) : text[i] # "$"

\* C13: the pipeline applied to its own output, when that output holds no
\* `$<name>` token, returns the same query text (same store, time range and
\* width).
C13_PipelineIdempotent ==
  (last.op = "pipeline" /\ NoToken(last.value.once))
    => last.value.twice = last.value.once

\* C13 witness: the first application replaced a token and injected two
\* filters, the second changed nothing
C13_Witness ==
  /\ last.op = "pipeline"
  /\ Includes(last.args.query, Token(NameA))
  /\ Len(AdHocVariables(last.args.vd)) = 2
  /\ NoToken(last.value.once)
  /\ last.value.once # last.args.query
  /\ last.value.twice = last.value.once

\* ------------------------------------------------ the interval on its own
\* Number of time ranges and of panel widths the interval is computed for
MaxRanges == 12
MaxWidths == 5

\* endISOTimestamp - startISOTimestamp, in milliseconds: multiples of 12.5 minutes
Ranges == {750000 * k : k \in 0..(MaxRanges - 1)}

\* chartPanelRef.value.offsetWidth, in pixels
Widths == {250 * k : k \in 1..MaxWidths}

IntervalInit ==
  /\ NoPanel
  /\ last \in {Input([rangeMillis |-> r, viewportPixels |-> w]) : r \in Ranges, w \in Widths}

\* The text replaceQueryValue puts in place of `$__interval`
ApplyInterval ==
  /\ last.op = "input"
  /\ last' = [op |-> "interval", args |-> last.args,
              value |-> replaceQueryValue(Token(NameInterval), 0, last.args.rangeMillis, <<>>,
                                          last.args.viewportPixels,
                                          DefaultScrapeInterval).query]
  /\ UNCHANGED loaderVars

SpecInterval == IntervalInit /\ [][ApplyInterval]_vars

\* C14: the text substituted for `$__interval` is the bucket of the first
\* breakpoint of the table that is >= rangeMillis / viewportPixels taken in
\* milliseconds (1y when there is none); 1500 ms per pixel gives 1s.
C14_IntervalBucket ==
  last.op = "interval" =>
    LET r == last.args.rangeMillis
        w == last.args.viewportPixels
        first == {k \in 1..Len(IntervalTable) :
                    /\ CeilDiv(r, w) <= IntervalTable[k][1]
                    /\ \A j \in 1..(k - 1) : CeilDiv(r, w) > IntervalTable[j][1]}
    IN /\ \A k \in first :
            last.value = <<ToString(IntervalTable[k][2]), IntervalTable[k][3]>>
       /\ first = {} => last.value = <<"1", "y">>
       /\ r = 1500 * w => last.value = <<"1", "s">>

\* ------------------------------------------- formateRateInterval on its own
\* Largest number of days of the durations formateRateInterval is applied to
MaxDays == 1

\* Whole numbers of seconds: every mix of zero and non-zero components
RateInputs ==
  {86400 * d + 3600 * h + 60 * m + s :
     d \in 0..MaxDays, h \in {0, 1, 23}, m \in {0, 1, 30, 59}, s \in {0, 1, 30, 59}}

RateInit ==
  /\ NoPanel
  /\ last \in {Input(n) : n \in RateInputs}

ApplyFormateRateInterval ==
  /\ last.op = "input"
  /\ last' = [op |-> "formateRateInterval", args |-> last.args,
              value |-> formateRateInterval([sec |-> last.args, ms |-> 0])]
  /\ UNCHANGED loaderVars

SpecRate == RateInit /\ [][ApplyFormateRateInterval]_vars

\* A component of a duration text: nothing when it is zero
Component(n, unit) == IF n = 0 THEN <<>> ELSE <<ToString(n), unit>>

\* C15: formateRateInterval(n) of a whole number of seconds n is the
\* concatenation, days first, of the non-zero components d, h, m, s with
\* h < 24, m < 60, s < 60 and 86400 d + 3600 h + 60 m + s = n; 90 gives
\* 1m30s, 0 the empty text, 3661 1h1m1s.
C15_RateIntervalText ==
  last.op = "formateRateInterval" =>
    /\ \E d \in 0..(MaxDays + 1), h \in 0..23, m \in 0..59 :
         LET s == last.args - (86400 * d + 3600 * h + 60 * m)
         IN /\ s \in 0..59
            /\ last.value = Component(d, "d") \o Component(h, "h")
                              \o Component(m, "m") \o Component(s, "s")
    /\ last.args = 90 => last.value = <<"1", "m", "30", "s">>
    /\ last.args = 0 => last.value = <<>>
    /\ last.args = 3661 => last.value = <<"1", "h", "1", "m", "1", "s">>

\* C15 witness: a duration with every component non-zero
C15_Witness ==
  /\ last.op = "formateRateInterval"
  /\ last.args = 86400 + 3600 + 60 + 1
  /\ last.value = <<"1", "d", "1", "h", "1", "m", "1", "s">>

\* ------------------------------------------------------ dispatched queries
\* The bound (non-ad-hoc) variables of the store, with their values
BoundVariables(vd) == SelectSeq(vd, LAMBDA it : it.type # "ad-hoc-filters")

\* C16: every query of an attempt that has just been dispatched is the
\* sub-query text with each `$<name>` token of a bound variable replaced by
\* the value the variable has in the store at that moment (and the fixed
\* variables and ad-hoc filters applied).
C16_DispatchedWithStoreValues ==
  (last.outcome = "dispatched" /\ last.attempt > 0)
    => \A i \in 1..Len(panelSchema.queries) :
         attempts[last.attempt].calls[i].metadata.query
           = QueryMetadata(panelSchema.queries[i], selectedTimeObj.start_time.ms,
                           selectedTimeObj.end_time.ms, panelSchema.queryType,
                           BoundVariables(variablesData), variablesData,
                           DefaultWidth, DefaultScrapeInterval).query

\* The set D of the variable-store handler: the bound variables of the store
\* whose token occurs in a sub-query text, in store order
ReferencedVariables ==
  SelectSeq(variablesData, LAMBDA it :
    /\ it.type # "ad-hoc-filters"
    /\ \E j \in 1..Len(panelSchema.queries) :
         Includes(panelSchema.queries[j].query, Token(it.name)))

\* The value of `it` differs from its value in `baseline`, or that value is
\* the empty string, or the baseline has no variable of that name
DiffersFrom(it, baseline) ==
  \/ \A j \in 1..Len(baseline) : baseline[j].name # it.name
  \/ \E j \in 1..Len(baseline) :
       /\ baseline[j].name = it.name
       /\ \A k \in 1..(j - 1) : baseline[k].name # it.name
       /\ (baseline[j].value = <<>> \/ baseline[j].value # it.value)

\* C17: at a variable-store change the bound decision is false when D is
\* empty; otherwise it is true exactly when some variable of D differs from
\* its baseline value or has an empty or missing baseline value, and then
\* the bound baseline becomes D, not the whole store.
C17_BoundChangeRule ==
  Decided =>
    LET D == ReferencedVariables
    IN /\ Len(D) = 0 => ~last.bound
       /\ Len(D) > 0 =>
            (last.bound <=> \E i \in 1..Len(D) : DiffersFrom(D[i], last.before.bound))
       /\ last.bound => currentDependentVariablesData = D

\* C17 witness: the one referenced variable changed its non-empty value and
\* the baseline, a copy of the whole store until then, became D
C17_Witness ==
  /\ Decided /\ last.bound
  /\ Len(ReferencedVariables) = 1
  /\ Len(last.before.bound) = Len(variablesData)
  /\ \E j \in 1..Len(last.before.bound) :
       /\ last.before.bound[j].name = ReferencedVariables[1].name
       /\ last.before.bound[j].value # <<>>
       /\ ReferencedVariables[1].value # <<>>
  /\ currentDependentVariablesData = ReferencedVariables

\* C18: an ad-hoc filter list that is empty at a variable-store change, and
\* was empty at creation when this is the first event after creation or was
\* empty in the ad-hoc baseline, gives a false ad-hoc decision.
C18_EmptyAdHocNoChange ==
  (/\ Decided
   /\ Len(AdHocVariables(variablesData)) = 0
   /\ \/ Len(last.before.adhoc) = 0
      \/ events = 1 /\ Len(AdHocVariables(last.before.adhoc)) = 0)
    => ~last.adhoc

\* C19: a step of the variable-store handler calls loadData exactly when a
\* decision is true and the panel is visible; a decision that is false
\* leaves its baseline as it was; with both false the dirty flag, the load
\* state and the attempts are unchanged; with one true while the panel is
\* not visible, dirty becomes true and nothing is dispatched.
C19_VariablesFrame ==
  [][last'.op = "variables"
       => LET trigger == last'.bound \/ last'.adhoc
          IN /\ (last'.calls = 1) <=> (trigger /\ isVisible)
             /\ last'.calls <= 1
             /\ ~last'.bound => UNCHANGED currentDependentVariablesData
             /\ ~last'.adhoc => UNCHANGED currentAdHocVariablesData
             /\ last'.bound => currentDependentVariablesData' = ReferencedVariables'
             /\ last'.adhoc => currentAdHocVariablesData' = AdHocVariables(variablesData')
             /\ ~trigger => UNCHANGED <<isDirty, state, attempts>>
             /\ (trigger /\ ~isVisible) => (isDirty' /\ UNCHANGED <<state, attempts>>)]_vars

\* C19 witness: on a hidden panel the ad-hoc decision alone was true; the
\* ad-hoc baseline was replaced, the bound one was not, the panel is dirty
C19_Witness ==
  /\ Decided /\ last.adhoc /\ ~last.bound
  /\ ~isVisible /\ isDirty /\ last.calls = 0
  /\ Len(ReferencedVariables) > 0
  /\ currentDependentVariablesData = last.before.bound
  /\ currentAdHocVariablesData # last.before.adhoc
  /\ Len(AdHocVariables(variablesData)) > 0

\* ------------------------------------------ applyAdhocVariables on its own
\* Number of filters of the ad-hoc variable
MaxFilters == 2

FNoOperator == Filter(NameK, <<>>, <<"1">>)
FNoName == Filter(<<>>, <<"=">>, <<"1">>)

\* The filters the ad-hoc variable is made of
Filters == {F1, F2, FJ, FBlank, FNoOperator, FNoName}

\* Variable stores: one scalar variable and one ad-hoc variable with at most
\* n filters
AdhocStores(n) ==
  {<<Variable(NameA, "custom", <<"u">>, FALSE), Variable(NameF, "ad-hoc-filters", fl, FALSE)>> :
      fl \in UNION {[1..k -> Filters] : k \in 0..n}}

\* panelSchema.value.queryType: the two kinds with an injection utility, and
\* a kind loadData runs through the search service like "sql"
QueryTypes == {"promql", "sql", "other"}

AdhocInit ==
  /\ NoPanel
  /\ last \in {Input([query |-> q, queryType |-> t, vd |-> vd]) :
                 q \in {QPlain, QPlain \o Matcher(NameK, <<"1">>, <<"=">>)},
                 t \in QueryTypes, vd \in AdhocStores(MaxFilters)}

ApplyAdhocVariables ==
  /\ last.op = "input"
  /\ last' = [op |-> "applyAdhocVariables", args |-> last.args,
              value |-> applyAdhocVariables(last.args.query, last.args.queryType,
                                            last.args.vd)]
  /\ UNCHANGED loaderVars

SpecAdhoc == AdhocInit /\ [][ApplyAdhocVariables]_vars

\* C20: applyAdhocVariables keeps the filters with a non-empty operator,
\* name and value; with none kept the query is returned unchanged with an
\* empty ledger; otherwise, whatever the query kind, the ledger is one
\* "dynamicVariable" entry {name, value, operator} per kept filter, in order.
C20_AdhocLedger ==
  last.op = "applyAdhocVariables" =>
    LET kept == SelectSeq(last.args.vd[2].value,
                          LAMBDA f : f.operator # <<>> /\ f.name # <<>> /\ f.value # <<>>)
    IN /\ Len(kept) = 0
            => (last.value.query = last.args.query /\ last.value.metadata = <<>>)
       /\ Len(kept) > 0
            => last.value.metadata
                 = [i \in 1..Len(kept) |->
                      [type |-> "dynamicVariable", name |-> kept[i].name,
                       value |-> kept[i].value, operator |-> kept[i].operator]]

\* ------------------------------------------------------- overlapping attempts
\* Attempt k passed the gates and one of its sub-query calls has not settled
Unsettled(k) ==
  /\ ~attempts[k].done
  /\ \E i \in 1..Len(attempts[k].calls) : attempts[k].calls[i].status = "pending"

\* C21: loading is true whenever an attempt that passed the gates still has
\* an unsettled sub-query call, also when another attempt has completed
\* meanwhile.
C21_LoadingWhileUnsettled ==
  (\E k \in 1..Len(attempts) : Unsettled(k)) => state.loading

\* C22: when the last handler of a visible panel called loadData and it
\* returned at the dependency gate, the variable-store change after which no
\* referenced variable is loading (panel still visible, time range valid)
\* dispatches the sub-query calls, whatever the values of the variables.
C22_NoLostFetch ==
  [][(/\ last.calls > 0 /\ last.outcome = "gate"
      /\ isVisible /\ isVisible'
      /\ TimeReady(selectedTimeObj')
      /\ last'.op = "variables"
      /\ ~ReferencedVariableLoading(variablesData', panelSchema'))
       => last'.outcome = "dispatched"]_vars

\* C23: on a visible panel, a panel-definition or time-range change that
\* leaves a sub-query of non-empty text calls loadData in that step, whatever
\* the position of that sub-query: the condition of the visibility trigger.
C23_SchemaAndTimeTrigger ==
  [][(/\ last'.op \in {"schema", "time"}
      /\ isVisible'
      /\ hasAtLeastOneQuery(panelSchema'))
       => last'.calls = 1]_vars

====
